---- MODULE Spec2Model ----
(***************************************************************************)
(* process_sas_to_parquet (src/restore_categorical_features.py): one call  *)
(* is a straight-line run  load metadata -> file size / free memory ->     *)
(* validate -> decide chunk size -> for each chunk (join per metadata row, *)
(* collect, vstack) -> write_parquet.  An exception ends the run: nothing  *)
(* in the function catches one.                                            *)
(*                                                                         *)
(* Cell values, column names and file contents are the inputs.  A frame    *)
(* (pandas / polars DataFrame, csv table) is a record                      *)
(*   [ok, cols, rows]: cols the column names in order, rows a sequence of  *)
(* functions from column name to cell value; ok = FALSE stands for the     *)
(* exception a frame operation raised.  Library calls are taken to do what *)
(* the call site names: fillna fills the nulls of the receiver, vstack     *)
(* stacks the frames it is handed, read_sas with no chunk size hands the   *)
(* whole dataset over at once.                                             *)
(***************************************************************************)
EXTENDS Integers, Sequences, FiniteSets, TLC

\* ---------------------------------------------------------------- bounds
MaxRows == 2
MaxBytes == 3
MaxRuns == 2

\* ---------------------------------------------------------------- values
NULL == "null"
None == -1
Codes == {"1", "99"}

Range(s) == {s[i] : i \in 1..Len(s)}

NoDup(s) == \A i, j \in 1..Len(s) : s[i] = s[j] => i = j

RECURSIVE Flatten(_)
Flatten(ss) == IF ss = <<>> THEN <<>> ELSE Head(ss) \o Flatten(Tail(ss))

\* ---------------------------------------------------------------- frames
EmptyFrame == [ok |-> TRUE, cols |-> <<>>, rows |-> <<>>]
ErrFrame == [ok |-> FALSE, cols |-> <<>>, rows |-> <<>>]
Frame(cols, rows) == [ok |-> TRUE, cols |-> cols, rows |-> rows]

Right(c) == c \o "_right"

\* ldf.join(lookup_table, left_on=c, right_on=k, how='left'): every left row
\* once per matching right row (once with nulls when none matches), left
\* order kept; the right key column is not carried over, a right column
\* whose name the left frame already has gets the suffix _right.
Join(L, R, c, k) ==
  IF ~L.ok \/ ~R.ok \/ c \notin Range(L.cols) \/ k \notin Range(R.cols)
  THEN ErrFrame
  ELSE
    LET keep(x) == x # k
        rcols == SelectSeq(R.cols, keep)
        newName(x) == IF x \in Range(L.cols) THEN Right(x) ELSE x
        added == [i \in 1..Len(rcols) |-> newName(rcols[i])]
        outCols == L.cols \o added
        src(x) == rcols[CHOOSE i \in 1..Len(rcols) : added[i] = x]
        RowsFor(l) ==
          LET hit(r) == l[c] # NULL /\ r[k] = l[c]
              m == SelectSeq(R.rows, hit)
          IN IF m = <<>>
             THEN << [x \in Range(outCols) |->
                        IF x \in Range(L.cols) THEN l[x] ELSE NULL] >>
             ELSE [i \in 1..Len(m) |->
                     [x \in Range(outCols) |->
                        IF x \in Range(L.cols) THEN l[x] ELSE m[i][src(x)]]]
    IN IF ~NoDup(outCols)
       THEN ErrFrame
       ELSE Frame(outCols, Flatten([i \in 1..Len(L.rows) |-> RowsFor(L.rows[i])]))

\* Fillna with the joined column taken outright, no fallback.
FillnaJoinedOnly(r, c, other) == r[other]

\* pl.col(c).fillna(pl.col(other)): the receiver c, its nulls filled from other.
Fillna(r, c, other) == IF r[c] = NULL THEN r[other] ELSE r[c]

\* ldf.with_column(pl.col(c).fillna(pl.col(c + '_right')).alias(c))
WithColumn(F, c) ==
  IF ~F.ok \/ c \notin Range(F.cols) \/ Right(c) \notin Range(F.cols)
  THEN ErrFrame
  ELSE Frame(F.cols,
             [i \in 1..Len(F.rows) |->
                [F.rows[i] EXCEPT ![c] = Fillna(F.rows[i], c, Right(c))]])

\* .drop(c + '_right')
Drop(F, d) ==
  IF ~F.ok \/ d \notin Range(F.cols)
  THEN ErrFrame
  ELSE LET keep(x) == x # d
           cols == SelectSeq(F.cols, keep)
       IN Frame(cols, [i \in 1..Len(F.rows) |->
                         [x \in Range(cols) |-> F.rows[i][x]]])

\* One pass of the metadata loop body for metadata row `row`, the lookup
\* table being the csv file lookup_<orig_col_name>.csv.
JoinRow(F, row, lookup) ==
  Drop(WithColumn(Join(F, lookup, row.orig_col_name, row.int_id_col_name),
                  row.orig_col_name),
       Right(row.orig_col_name))

RECURSIVE VstackAll(_, _)
\* full_data.vstack(frames): the frames stacked under the receiver, a frame
\* of no columns taking the columns of the first one stacked under it.
VstackAll(F, frames) ==
  IF frames = <<>> THEN F
  ELSE LET G == Head(frames)
           H == IF F.cols = <<>> THEN G
                ELSE IF G.cols = <<>> THEN F
                ELSE IF G.cols # F.cols THEN ErrFrame
                ELSE Frame(F.cols, F.rows \o G.rows)
       IN IF ~F.ok \/ ~G.ok THEN ErrFrame ELSE VstackAll(H, Tail(frames))

\* ------------------------------------------------------------ the inputs
DataCols == <<"id", "region_code">>

\* A dataset of n rows: row i has id i and a surrogate code (or a null).
DataRow(i, v) == [x \in Range(DataCols) |-> IF x = "id" THEN i ELSE v]
Datasets ==
  UNION { { [i \in 1..n |-> DataRow(i, f[i])] : f \in [1..n -> Codes \cup {NULL}] }
          : n \in 0..MaxRows }

MetaRow(c, k) == [orig_col_name |-> c, int_id_col_name |-> k]
MetadataFiles ==
  { <<>>,
    << MetaRow("region_code", "region_id") >>,
    << MetaRow("region_code", "region_id"), MetaRow("zip", "zip_id") >>,
    << MetaRow("region_code", "region_id"), MetaRow("region_code", "region_id") >> }

LRow(cols, vals) == [x \in Range(cols) |-> vals[CHOOSE i \in 1..Len(cols) : cols[i] = x]]
LTable(cols, valss) == Frame(cols, [i \in 1..Len(valss) |-> LRow(cols, valss[i])])

\* lookup_region_code.csv as it may be found on disk.
LookupFiles ==
  { ErrFrame,
    LTable(<<"region_id", "region_code">>, << <<"1", "East">>, <<"2", "West">> >>),
    LTable(<<"region_id", "region_code">>, << <<"1", "East">>, <<"1", "Ost">> >>),
    LTable(<<"region_id", "region_code", "descr">>,
           << <<"1", "East", "E">>, <<"2", "West", "W">> >>),
    LTable(<<"region_id", "label">>, << <<"1", "East">>, <<"2", "West">> >>),
    LTable(<<"code", "region_code">>, << <<"1", "East">>, <<"2", "West">> >>) }

LookupZip == LTable(<<"zip_id", "zip">>, << <<"1", "10001">> >>)

\* threshold as the fraction num/den, den > 0
Thresholds == { <<0, 1>>, <<-1, 2>>, <<3, 2>>, <<1, 4>>, <<1, 1>> }

VARIABLES
  threshold,        \* the threshold argument
  sas_file,         \* the file at sas_filepath: [exists, bytes, rows]
  metadata_file,    \* the file at metadata_filepath: [exists, rows]
  lookup_file,      \* lookup_region_code.csv
  memory,           \* psutil.virtual_memory().available
  out_file,         \* the file at output_filepath: [exists, frame]
  pc, err,          \* position in the function, the exception raised
  metadata, dataset_size, available_memory, chunksize,
  full_data, ldf, mi,
  pos, nchunks,     \* the SAS reader: rows handed over, chunks handed over
  runs, out_log     \* calls made, the output file as each finished call left it

vars == <<threshold, sas_file, metadata_file, lookup_file, memory, out_file,
          pc, err, metadata, dataset_size, available_memory, chunksize,
          full_data, ldf, mi, pos, nchunks, runs, out_log>>

inputs == <<threshold, sas_file, metadata_file, lookup_file, memory>>
locals == <<metadata, dataset_size, available_memory, chunksize,
            full_data, ldf, mi, pos, nchunks>>

NoOutput == [exists |-> FALSE, frame |-> EmptyFrame]

InitLocals ==
  /\ metadata = <<>>
  /\ dataset_size = 0
  /\ available_memory = 0
  /\ chunksize = None
  /\ full_data = EmptyFrame
  /\ ldf = EmptyFrame
  /\ mi = 0
  /\ pos = 0
  /\ nchunks = 0

Init ==
  /\ threshold \in Thresholds
  /\ sas_file \in {[exists |-> FALSE, bytes |-> 0, rows |-> <<>>]}
                  \cup [exists : {TRUE}, bytes : 1..MaxBytes, rows : Datasets]
  /\ metadata_file \in {[exists |-> FALSE, rows |-> <<>>]}
                       \cup [exists : {TRUE}, rows : MetadataFiles]
  /\ lookup_file \in LookupFiles
  /\ memory \in 1..MaxBytes
  /\ out_file = NoOutput
  /\ pc = "start"
  /\ err = "none"
  /\ InitLocals
  /\ runs = 1
  /\ out_log = <<>>

Raise(e) == pc' = "error" /\ err' = e

\* LoadMetadata with the read wrapped, a failure re-raised as a ValueError.
LoadMetadataWrapped ==
  /\ pc = "start"
  /\ IF metadata_file.exists
     THEN /\ metadata' = metadata_file.rows
          /\ pc' = "getsize"
          /\ err' = err
     ELSE /\ Raise("ValueError")
          /\ metadata' = metadata
  /\ UNCHANGED <<inputs, out_file, dataset_size, available_memory, chunksize,
                 full_data, ldf, mi, pos, nchunks, runs, out_log>>

\* line 38: metadata = pd.read_csv(metadata_filepath)
LoadMetadata ==
  /\ pc = "start"
  /\ IF metadata_file.exists
     THEN /\ metadata' = metadata_file.rows
          /\ pc' = "getsize"
          /\ err' = err
     ELSE /\ Raise("FileNotFoundError")
          /\ metadata' = metadata
  /\ UNCHANGED <<inputs, out_file, dataset_size, available_memory, chunksize,
                 full_data, ldf, mi, pos, nchunks, runs, out_log>>

\* lines 41-44: os.path.getsize(sas_filepath), psutil.virtual_memory().available
GetSize ==
  /\ pc = "getsize"
  /\ IF sas_file.exists
     THEN /\ dataset_size' = sas_file.bytes
          /\ available_memory' = memory
          /\ pc' = "validate"
          /\ err' = err
     ELSE /\ Raise("FileNotFoundError")
          /\ UNCHANGED <<dataset_size, available_memory>>
  /\ UNCHANGED <<inputs, out_file, metadata, chunksize,
                 full_data, ldf, mi, pos, nchunks, runs, out_log>>

\* line 46: 0 < threshold <= 1
ValidThreshold(t) == 0 < t[1] /\ t[1] <= t[2]

\* lines 46-53: the exception the three checks raise, "none" when all pass
ValidationError(t, sasExists, metaExists) ==
  IF ~ValidThreshold(t) THEN "ValueError"
  ELSE IF ~sasExists THEN "FileNotFoundError"
  ELSE IF ~metaExists THEN "FileNotFoundError"
  ELSE "none"

Validate ==
  /\ pc = "validate"
  /\ LET e == ValidationError(threshold, sas_file.exists, metadata_file.exists)
     IN IF e = "none"
        THEN pc' = "decide" /\ err' = err
        ELSE Raise(e)
  /\ UNCHANGED <<inputs, out_file, locals, runs, out_log>>

\* line 55: dataset_size > threshold * available_memory
NeedsChunking(size, t, avail) == size * t[2] > t[1] * avail

\* lines 55-60
ChunkSize(size, t, avail) ==
  IF NeedsChunking(size, t, avail) THEN avail \div size ELSE None

Decide ==
  /\ pc = "decide"
  /\ chunksize' = ChunkSize(dataset_size, threshold, available_memory)
  /\ pc' = "loop"
  /\ UNCHANGED <<inputs, out_file, err, metadata, dataset_size, available_memory,
                 full_data, ldf, mi, pos, nchunks, runs, out_log>>

\* pd.read_sas(sas_filepath, chunksize=chunksize): with a chunk size the
\* reader hands over that many rows at a time; with none (None, and 0, which
\* pandas tests as `if chunksize`) the whole dataset comes at once.
Whole(size) == size = None \/ size = 0

Exhausted(rows, size, p, n) == IF Whole(size) THEN n >= 1 ELSE p >= Len(rows)

NextChunk(rows, size, p) ==
  IF Whole(size) THEN rows
  ELSE SubSeq(rows, p + 1, IF p + size <= Len(rows) THEN p + size ELSE Len(rows))

\* line 66 (loop head) and lines 68-71: the next chunk, as a lazy frame
ReadChunk ==
  /\ pc = "loop"
  /\ IF Exhausted(sas_file.rows, chunksize, pos, nchunks)
     THEN /\ pc' = "write"
          /\ UNCHANGED <<ldf, mi, pos, nchunks>>
     ELSE LET chunk == NextChunk(sas_file.rows, chunksize, pos)
          IN /\ ldf' = Frame(DataCols, chunk)
             /\ mi' = 1
             /\ pos' = pos + Len(chunk)
             /\ nchunks' = nchunks + 1
             /\ pc' = "join"
  /\ UNCHANGED <<inputs, out_file, err, metadata, dataset_size, available_memory,
                 chunksize, full_data, runs, out_log>>

\* line 76: pl.scan_csv(f"lookup_{row['orig_col_name']}.csv")
ScanCsv(c) == IF c = "region_code" THEN lookup_file ELSE LookupZip

\* JoinStep with the failure caught: the metadata row is skipped.
JoinStepSkip ==
  /\ pc = "join"
  /\ mi <= Len(metadata)
  /\ LET row == metadata[mi]
         new == JoinRow(ldf, row, ScanCsv(row.orig_col_name))
     IN /\ ldf' = IF new.ok THEN new ELSE ldf
        /\ mi' = mi + 1
        /\ UNCHANGED <<pc, err>>
  /\ UNCHANGED <<inputs, out_file, metadata, dataset_size, available_memory,
                 chunksize, full_data, pos, nchunks, runs, out_log>>

\* lines 74-89: one metadata row; a failing frame operation raises
JoinStep ==
  /\ pc = "join"
  /\ mi <= Len(metadata)
  /\ LET row == metadata[mi]
         new == JoinRow(ldf, row, ScanCsv(row.orig_col_name))
     IN IF new.ok
        THEN /\ ldf' = new
             /\ mi' = mi + 1
             /\ UNCHANGED <<pc, err>>
        ELSE /\ Raise("SchemaError")
             /\ UNCHANGED <<ldf, mi>>
  /\ UNCHANGED <<inputs, out_file, metadata, dataset_size, available_memory,
                 chunksize, full_data, pos, nchunks, runs, out_log>>

\* Accumulate keeping the last chunk only.
AccumulateLast(acc, df_chunk) == df_chunk

\* line 93: full_data.vstack([full_data, df_chunk])
Accumulate(acc, df_chunk) == VstackAll(acc, <<acc, df_chunk>>)

\* lines 92-93: df_chunk = ldf.collect(); full_data = full_data.vstack(...)
Collect ==
  /\ pc = "join"
  /\ mi > Len(metadata)
  /\ LET new == Accumulate(full_data, ldf)
     IN IF new.ok
        THEN /\ full_data' = new
             /\ pc' = "loop"
             /\ err' = err
        ELSE /\ Raise("SchemaError")
             /\ full_data' = full_data
  /\ UNCHANGED <<inputs, out_file, metadata, dataset_size, available_memory,
                 chunksize, ldf, mi, pos, nchunks, runs, out_log>>

\* WriteParquet appending to the file it finds.
WriteParquetAppend(old, frame) ==
  [exists |-> TRUE, frame |-> VstackAll(old.frame, <<frame>>)]

\* full_data.write_parquet(path): the file at path is created or replaced
WriteParquet(old, frame) == [exists |-> TRUE, frame |-> frame]

\* line 96, and the return
Write ==
  /\ pc = "write"
  /\ out_file' = WriteParquet(out_file, full_data)
  /\ out_log' = Append(out_log, out_file')
  /\ pc' = "done"
  /\ UNCHANGED <<inputs, err, locals, runs>>

\* the caller calls again with the same arguments, the files as they are
Rerun ==
  /\ pc = "done"
  /\ runs < MaxRuns
  /\ runs' = runs + 1
  /\ pc' = "start"
  /\ metadata' = <<>>
  /\ dataset_size' = 0
  /\ available_memory' = 0
  /\ chunksize' = None
  /\ full_data' = EmptyFrame
  /\ ldf' = EmptyFrame
  /\ mi' = 0
  /\ pos' = 0
  /\ nchunks' = 0
  /\ UNCHANGED <<inputs, out_file, err, out_log>>

Next ==
  \/ LoadMetadata
  \/ GetSize
  \/ Validate
  \/ Decide
  \/ ReadChunk
  \/ JoinStep
  \/ Collect
  \/ Write
  \/ Rerun

Spec == Init /\ [][Next]_vars

\* ================================================================ claims
Listed(c) == \E i \in 1..Len(metadata_file.rows) : metadata_file.rows[i].orig_col_name = c

LookupKeys == IF lookup_file.ok /\ "region_id" \in Range(lookup_file.cols)
              THEN {lookup_file.rows[i]["region_id"] : i \in 1..Len(lookup_file.rows)}
              ELSE {}

UniqueKeys ==
  lookup_file.ok /\ "region_id" \in Range(lookup_file.cols)
    => \A i, j \in 1..Len(lookup_file.rows) :
         lookup_file.rows[i]["region_id"] = lookup_file.rows[j]["region_id"] => i = j

Categorical(v) ==
  (CHOOSE r \in Range(lookup_file.rows) : r["region_id"] = v)["region_code"]

SourceCode(i) == sas_file.rows[i]["region_code"]

OutRows == out_file.frame.rows

Written == pc = "done" /\ out_file.exists

\* C1: when region_code is listed in the metadata and every surrogate value of
\* the dataset has a (unique) lookup entry, every written region_code is the
\* lookup table's categorical value, never the surrogate value.
C1_LookupValueWins ==
  ( /\ Written
    /\ Listed("region_code")
    /\ "region_code" \in Range(lookup_file.cols)
    /\ UniqueKeys
    /\ \A i \in 1..Len(sas_file.rows) : SourceCode(i) \in LookupKeys )
  => \A j \in 1..Len(OutRows) :
       OutRows[j]["region_code"] = Categorical(SourceCode(OutRows[j]["id"]))

\* C2: a row whose surrogate value has no matching key in the lookup table of a
\* listed column is written with its original surrogate value.
C2_UnmatchedPassThrough ==
  (Written /\ Listed("region_code"))
  => \A i \in 1..Len(sas_file.rows) :
       SourceCode(i) \notin LookupKeys
       => /\ \E j \in 1..Len(OutRows) : OutRows[j]["id"] = i
          /\ \A j \in 1..Len(OutRows) :
               OutRows[j]["id"] = i => OutRows[j]["region_code"] = SourceCode(i)

C2_Witness ==
  /\ Written
  /\ Listed("region_code")
  /\ "1" \in LookupKeys
  /\ Len(sas_file.rows) = 2
  /\ SourceCode(1) = "1"
  /\ SourceCode(2) = "99"
  /\ \E j \in 1..Len(OutRows) :
       OutRows[j]["id"] = 2 /\ OutRows[j]["region_code"] = "99"

\* C3: with unique lookup keys the rows written are the rows of the input
\* dataset, once each, in input order, whatever the chunk size.
C3_RowsOnceInOrder ==
  (Written /\ UniqueKeys)
  => [j \in 1..Len(OutRows) |-> OutRows[j]["id"]]
       = [i \in 1..Len(sas_file.rows) |-> i]

\* C4: a call with a threshold outside (0, 1] ends in ValueError, whatever the
\* state of the input files, reads no chunk and writes no output.
C4_BadThresholdIsValueError ==
  ~(0 < threshold[1] /\ threshold[1] <= threshold[2])
  => /\ pc \in {"start", "getsize", "validate", "error"}
     /\ pc = "error" => err = "ValueError"
     /\ nchunks = 0
     /\ ~out_file.exists

\* C5: a call with a valid threshold and a missing dataset or metadata file
\* ends in FileNotFoundError, processes no chunk and writes no output.
C5_MissingInputIsFileNotFound ==
  ( /\ 0 < threshold[1] /\ threshold[1] <= threshold[2]
    /\ ~sas_file.exists \/ ~metadata_file.exists )
  => /\ pc \in {"start", "getsize", "validate", "error"}
     /\ pc = "error" => err = "FileNotFoundError"
     /\ nchunks = 0
     /\ ~out_file.exists

C5_Witness ==
  /\ 0 < threshold[1] /\ threshold[1] <= threshold[2]
  /\ ~sas_file.exists
  /\ metadata_file.exists
  /\ pc = "error"
  /\ err = "FileNotFoundError"

\* The output file as the current call found it.
AtCallStart == IF out_log = <<>> THEN NoOutput ELSE out_log[Len(out_log)]

HeldIds == {full_data.rows[j]["id"] : j \in 1..Len(full_data.rows)}

C8_ColumnsKept ==
  (pc = "join" /\ mi > Len(metadata)) => ldf.cols = DataCols

\* A metadata row the chunk or the lookup table does not fit: the column is
\* not in the chunk, the lookup file is absent, or it lacks the key column or
\* the value column named like the original column.
Mismatch(row) ==
  LET t == ScanCsv(row.orig_col_name)
  IN \/ row.orig_col_name \notin Range(ldf.cols)
     \/ ~t.ok
     \/ row.int_id_col_name \notin Range(t.cols)
     \/ row.orig_col_name \notin Range(t.cols)

\* C9: a mismatch met while a chunk is transformed ends the call in an error
\* at once: no further chunk is read, nothing is written, and a call that
\* ended in an error never goes on.
C9_MismatchAborts ==
  [][ /\ (pc = "join" /\ mi <= Len(metadata) /\ Mismatch(metadata[mi]))
         => /\ pc' = "error"
            /\ err' # "none"
            /\ UNCHANGED <<pos, nchunks, full_data, out_file, out_log, runs>>
      /\ pc = "error" => pc' = "error" ]_vars

C9_Witness ==
  /\ pc = "error"
  /\ err = "SchemaError"
  /\ nchunks = 1
  /\ pos < Len(sas_file.rows)
  /\ ~out_file.exists

\* C10: once the chunk size is decided, it is an integer >= 1 when
\* dataset_size > threshold * available_memory and unset otherwise.
C10_ChunkSizePositive ==
  pc \in {"loop", "join", "write", "done"}
  => IF dataset_size * threshold[2] > threshold[1] * available_memory
     THEN chunksize >= 1
     ELSE chunksize = None
====
